---- MODULE Spec2Model ----
(***************************************************************************)
(* Order / payment workflow of the e-commerce backend.                     *)
(*                                                                         *)
(* The database tables (orders, order_status_history, payments) are the    *)
(* state.  Every controller is a request handler made of awaited database  *)
(* calls; every await is a point where another request may run, so a       *)
(* handler is modelled as one step per awaited call (a prisma.$transaction *)
(* callback is one atomic step).  Money is kept in cents, quantities in    *)
(* thousandths of a unit.                                                  *)
(***************************************************************************)
EXTENDS Integers, Sequences, FiniteSets, TLC

\* ---------------------------------------------------------------- bounds
\* Calls that append a status-history row are only issued while the order
\* has fewer than MaxHistory rows.
MaxHistory == 4

\* Longest items array of a createOrder request in the pricing specification.
MaxItems == 2

\* Request slots: the requests that may be in flight at once.
Procs == {"r1", "r2"}

\* Values generateOrderId() / generatePaymentId() may return.
OrderIds == {"ORD-1"}
PaymentIds == {"PAY-1", "PAY-2"}
LessId(x, y) == x = "PAY-1" /\ y = "PAY-2"

\* Identifiers a request may name (one of them names no row).
OrderRefs == OrderIds \cup {"ORD-404"}
PaymentRefs == PaymentIds \cup {"PAY-404"}

\* req.user: two authenticated accounts that place orders, one that does
\* not, and the unauthenticated request (req.user undefined).
Role == [admin |-> "ADMIN", alice |-> "CUSTOMER", mallory |-> "CUSTOMER"]
Buyers == {"alice"}
Requesters == {"admin", "alice", "mallory", "anonymous"}

\* ------------------------------------------------------------ enumerations
OrderStatus == {"AWAITING_PAYMENT", "PREPARING", "READY_FOR_SHIPPING",
                "SHIPPED", "DELIVERED", "CANCELLED"}
PaymentStatus == {"PENDING", "VERIFIED", "REJECTED"}
validMethods == {"TRANSFER", "YAPE", "PLIN", "CASH"}

\* Notes the handlers write into history rows.
NoteCreated == "Order created"
NoteVerified == "Payment verified - awaiting final confirmation to start preparation"
NoteConfirmed == "Payment confirmed - order started preparation"
NoteCancelled == "Order cancelled"

\* JavaScript values of optional string inputs: undefined, '' and a text.
Undefined == "undefined"
OptText == {Undefined, "", "text"}
Falsy(s) == s \in {Undefined, ""}

\* ------------------------------------------------------------------ catalog
\* products and presentations rows (read-only here): price in cents.
Product ==
  [p1 |-> [name |-> "Apple", price |-> 250, active |-> TRUE,
           presentations |-> {"bag"}],
   p2 |-> [name |-> "Milk", price |-> 380, active |-> TRUE,
           presentations |-> {}],
   p3 |-> [name |-> "Stale", price |-> 500, active |-> FALSE,
           presentations |-> {}]]
ProductIds == DOMAIN Product
Presentation ==
  [bag |-> [name |-> "Bag 5kg", unit |-> "BAG", price |-> 1100]]

\* -------------------------------------------------------------------- state
VARIABLES
  orders,     \* orders table: order id -> row
  history,    \* order_status_history: order id -> rows in insertion order
  payments,   \* payments table: payment id -> row
  req,        \* request slot -> the request it runs and where it is, and
              \* the response it sent last
  verifyLog,  \* payment id -> the decisions the application log reports
              \* as applied ("Payment <id> verified|rejected by ..."), in order
  body,       \* req.body.items of the createOrder request that the pricing
              \* specification submits (the empty list elsewhere)
  removed     \* ids of the catalog rows deleted from the products table

vars == <<orders, history, payments, req, verifyLog, body, removed>>

\* The three tables.
db == <<orders, history, payments>>

Idle == [op |-> "idle", pc |-> "idle", id |-> "none", arg |-> "none",
         reason |-> Undefined, amount |-> 0, orderId |-> "none",
         code |-> "none", msg |-> "none"]

\* The slot is free: it has served nothing yet or has sent its response
\* (code keeps the response it sent last).
IsIdle(p) == req[p].pc = "idle"

\* End of a handler: the response is sent and the slot is free again.
Finish(p, op, code) == req' = [req EXCEPT ![p] = [Idle EXCEPT !.code = code]]

\* Math.round(n / d) for n >= 0, d > 0 (round half up).
RoundDiv(n, d) == (2 * n + d) \div (2 * d)

Abs(x) == IF x < 0 THEN -x ELSE x

NoOrder == [exists |-> FALSE, status |-> "none", paymentStatus |-> "none",
            subtotal |-> 0, tax |-> 0, total |-> 0, userId |-> "none",
            items |-> <<>>]

NoPayment == [exists |-> FALSE, orderId |-> "none", status |-> "none",
              amount |-> 0, voucher |-> FALSE, rejectedReason |-> "null"]

Init ==
  /\ orders = [o \in OrderIds |-> NoOrder]
  /\ history = [o \in OrderIds |-> <<>>]
  /\ payments = [x \in PaymentIds |-> NoPayment]
  /\ req = [p \in Procs |-> Idle]
  /\ verifyLog = [x \in PaymentIds |-> <<>>]
  /\ body = <<>>
  /\ removed = {}

\* findUnique({ where: { id } }) finds a row.
HasOrder(o) == o \in OrderIds /\ orders[o].exists
HasPayment(x) == x \in PaymentIds /\ payments[x].exists

\* Rows of the payments table that belong to order o.
PaymentsOf(o) == {x \in PaymentIds : payments[x].exists /\ payments[x].orderId = o}

\* Requests in flight whose transaction will append a history row to o.
Appenders(o) ==
  {p \in Procs : /\ req[p].pc = "txn" /\ req[p].orderId = o
                 /\ req[p].op = "verify" => req[p].arg = "VERIFIED"}

\* Calls that will append a history row are issued only below the bound.
HistoryRoom(o) == Len(history[o]) + Cardinality(Appenders(o)) < MaxHistory

\* ------------------------------------------------------------ pricing
\* One request item: product_id, presentation_id ("none" when absent) and
\* quantity in thousandths (0 when absent).
Item(prod, pres, qty) == [product_id |-> prod, presentation_id |-> pres,
                          quantity |-> qty]

\* The body of the for-loop of create(): the error it throws for an item,
\* or "ok".
ItemError(item) ==
  IF item.product_id = "none" \/ item.quantity <= 0 THEN "INVALID_ITEMS"
  ELSE IF item.product_id \notin ProductIds \ removed THEN "INVALID_PRODUCT"
  ELSE IF ~Product[item.product_id].active THEN "INVALID_PRODUCT"
  ELSE IF /\ item.presentation_id # "none"
          /\ item.presentation_id \notin Product[item.product_id].presentations
       THEN "INVALID_PRODUCT"
  ELSE "ok"

\* The loop body looking the product up before it checks the quantity.
ItemMessage_LookupFirst(item) ==
  IF item.product_id = "none" THEN "Invalid item data"
  ELSE IF item.product_id \notin ProductIds THEN "Product not found"
  ELSE IF ~Product[item.product_id].active THEN "Product is not active"
  ELSE IF item.quantity <= 0 THEN "Invalid item data"
  ELSE IF /\ item.presentation_id # "none"
          /\ item.presentation_id \notin Product[item.product_id].presentations
       THEN "Presentation not found for product"
  ELSE "ok"

\* The message of that error: what tells the kinds of INVALID_PRODUCT apart
\* in the response (the product's id or name in it is left out).
ItemMessage(item) ==
  IF item.product_id = "none" \/ item.quantity <= 0 THEN "Invalid item data"
  ELSE IF item.product_id \notin ProductIds \ removed THEN "Product not found"
  ELSE IF ~Product[item.product_id].active THEN "Product is not active"
  ELSE IF /\ item.presentation_id # "none"
          /\ item.presentation_id \notin Product[item.product_id].presentations
       THEN "Presentation not found for product"
  ELSE "ok"

\* Pricing that ignores the presentation and takes the product's price.
UnitPrice_ProductOnly(item) == Product[item.product_id].price

\* Unit price of a valid item: the presentation's price when one is given.
UnitPrice(item) ==
  IF item.presentation_id # "none" THEN Presentation[item.presentation_id].price
  ELSE Product[item.product_id].price

\* itemTotal = Math.round(price * quantity * 100) / 100, in cents.
ItemTotal(item) == RoundDiv(UnitPrice(item) * item.quantity, 1000)

\* The order_items row pushed for a valid item.
OrderItem(item) ==
  [productId |-> item.product_id,
   presentationId |-> item.presentation_id,
   productName |-> Product[item.product_id].name,
   quantity |-> item.quantity,
   price |-> UnitPrice(item),
   total |-> ItemTotal(item),
   presentationInfo |->
     IF item.presentation_id # "none"
     THEN [name |-> Presentation[item.presentation_id].name,
           unit |-> Presentation[item.presentation_id].unit]
     ELSE [name |-> "null", unit |-> "null"]]

\* The loop over the items, in list order: the first error stops it.
RECURSIVE PriceItems(_, _, _, _)
PriceItems(items, i, subtotal, lines) ==
  IF i > Len(items)
  THEN [err |-> "ok", msg |-> "ok", subtotal |-> subtotal, lines |-> lines]
  ELSE IF ItemError(items[i]) # "ok"
       THEN [err |-> ItemError(items[i]), msg |-> ItemMessage(items[i]),
             subtotal |-> 0, lines |-> <<>>]
  ELSE PriceItems(items, i + 1, subtotal + ItemTotal(items[i]),
                  Append(lines, OrderItem(items[i])))

\* Subtotals in cents, up to 44.00, for which the double-precision value of
\* subtotal * 0.18 * 100 lies just below a half that the exact product
\* reaches (5.75 * 0.18 * 100 evaluates to 103.49999999999999).
TaxRoundsDown == {125, 575, 675, 1075, 1175, 1325, 1675, 1825, 2325, 2375,
                  2625, 2675, 3025, 3675, 3975, 4275}

\* calculateTax: Math.round(subtotal * 0.18 * 100) / 100, in cents.
calculateTax(subtotal) ==
  RoundDiv(subtotal * 18, 100) - (IF subtotal \in TaxRoundsDown THEN 1 ELSE 0)

\* ------------------------------------------------------ order.create
\* The body fields create() requires besides a non-empty items array.
RequiredFields == {"customer_name", "customer_phone", "customer_address",
                   "payment_method"}

\* create() without the insert of the initial history row.
CreateOrder_NoHistoryRow(p, user, missing, method, items, newId) ==
  /\ UNCHANGED <<verifyLog, body, removed>>
  /\ IsIdle(p)
  /\ IF missing # {} \/ Len(items) = 0
     THEN /\ Finish(p, "createOrder", "BAD_REQUEST")
          /\ UNCHANGED <<orders, history, payments>>
     ELSE LET priced == PriceItems(items, 1, 0, <<>>)
              tax == calculateTax(priced.subtotal)
              total == priced.subtotal + tax
          IN IF priced.err # "ok"
             THEN /\ req' = [req EXCEPT ![p] =
                             [Idle EXCEPT !.code = priced.err,
                                          !.msg = priced.msg]]
                  /\ UNCHANGED <<orders, history, payments>>
             ELSE IF method \notin validMethods \/ orders[newId].exists
             THEN /\ Finish(p, "createOrder", "INTERNAL_ERROR")
                  /\ UNCHANGED <<orders, history, payments>>
             ELSE /\ orders' = [orders EXCEPT ![newId] =
                       [exists |-> TRUE, status |-> "AWAITING_PAYMENT",
                        paymentStatus |-> "PENDING",
                        subtotal |-> priced.subtotal, tax |-> tax,
                        total |-> total, userId |-> user,
                        items |-> priced.lines]]
                  /\ Finish(p, "createOrder", "CREATED")
                  /\ UNCHANGED <<history, payments>>

\* create() inserting the order and its first history row before the loop
\* over the items, outside any transaction: an item error leaves them behind.
CreateOrder_NoTransaction(p, user, missing, method, items, newId) ==
  /\ UNCHANGED <<verifyLog, body, removed>>
  /\ IsIdle(p)
  /\ IF missing # {} \/ Len(items) = 0
     THEN /\ Finish(p, "createOrder", "BAD_REQUEST")
          /\ UNCHANGED <<orders, history, payments>>
     ELSE LET priced == PriceItems(items, 1, 0, <<>>)
              tax == calculateTax(priced.subtotal)
              total == priced.subtotal + tax
          IN IF method \notin validMethods \/ orders[newId].exists
             THEN /\ Finish(p, "createOrder", "INTERNAL_ERROR")
                  /\ UNCHANGED <<orders, history, payments>>
             ELSE /\ orders' = [orders EXCEPT ![newId] =
                       [exists |-> TRUE, status |-> "AWAITING_PAYMENT",
                        paymentStatus |-> "PENDING",
                        subtotal |-> priced.subtotal, tax |-> tax,
                        total |-> total, userId |-> user,
                        items |-> priced.lines]]
                  /\ history' = [history EXCEPT ![newId] =
                       Append(@, [status |-> "AWAITING_PAYMENT",
                                  notes |-> NoteCreated])]
                  /\ Finish(p, "createOrder",
                            IF priced.err # "ok" THEN priced.err ELSE "CREATED")
                  /\ UNCHANGED payments

\* create(req, res) of the order controller: validation, then one
\* transaction that prices the items and inserts the order, its items and
\* the first history row.  missing is the set of required fields absent
\* from the body; newId is what generateOrderId() returned.
CreateOrder(p, user, missing, method, items, newId) ==
  /\ UNCHANGED <<verifyLog, body, removed>>
  /\ IsIdle(p)
  /\ IF missing # {} \/ Len(items) = 0
     THEN /\ Finish(p, "createOrder", "BAD_REQUEST")
          /\ UNCHANGED <<orders, history, payments>>
     ELSE LET priced == PriceItems(items, 1, 0, <<>>)
              tax == calculateTax(priced.subtotal)
              total == priced.subtotal + tax
          IN IF priced.err # "ok"
             THEN /\ req' = [req EXCEPT ![p] =
                             [Idle EXCEPT !.code = priced.err,
                                          !.msg = priced.msg]]
                  /\ UNCHANGED <<orders, history, payments>>
             ELSE IF method \notin validMethods \/ orders[newId].exists
             THEN \* enum or primary-key violation: the transaction rolls back
                  /\ Finish(p, "createOrder", "INTERNAL_ERROR")
                  /\ UNCHANGED <<orders, history, payments>>
             ELSE /\ orders' = [orders EXCEPT ![newId] =
                       [exists |-> TRUE, status |-> "AWAITING_PAYMENT",
                        paymentStatus |-> "PENDING",
                        subtotal |-> priced.subtotal, tax |-> tax,
                        total |-> total, userId |-> user,
                        items |-> priced.lines]]
                  /\ history' = [history EXCEPT ![newId] =
                       Append(@, [status |-> "AWAITING_PAYMENT",
                                  notes |-> NoteCreated])]
                  /\ Finish(p, "createOrder", "CREATED")
                  /\ UNCHANGED payments

\* ---------------------------------------------------- payment.create
\* Amounts a createPayment request may supply, in cents (0: none supplied).
AmountInputs == {0, 1030, 1037, 1038, 1039}

\* Pairs <<amount, total>> one cent apart for which the double-precision
\* value of Math.abs(amount - orderTotal) exceeds the double 0.01
\* (10.38 - 10.37 evaluates to 0.010000000000001563, 10.39 - 10.38 to
\* 0.009999999999999787).
OneCentOver == {<<1037, 1038>>}

\* Math.abs(amount - orderTotal) > 0.01
AmountMismatch(amount, total) ==
  \/ Abs(amount - total) > 1
  \/ Abs(amount - total) = 1 /\ <<amount, total>> \in OneCentOver

\* create(): validation of the body and prisma.order.findUnique.
CreatePaymentStart(p, order_id, method, amount) ==
  /\ UNCHANGED <<verifyLog, body, removed>>
  /\ IsIdle(p)
  /\ UNCHANGED <<orders, history, payments>>
  /\ IF order_id = "none" \/ method = "none"
     THEN Finish(p, "createPayment", "BAD_REQUEST")
     ELSE IF method \notin validMethods
     THEN Finish(p, "createPayment", "BAD_REQUEST")
     ELSE IF ~HasOrder(order_id)
     THEN Finish(p, "createPayment", "NOT_FOUND")
     ELSE /\ req' = [req EXCEPT ![p] =
                [Idle EXCEPT !.op = "createPayment", !.pc = "findFirst",
                             !.id = order_id,
                             !.amount = IF amount # 0 THEN amount
                                        ELSE orders[order_id].total,
                             !.orderId = order_id]]

\* create() refusing only while the order's payment is still PENDING.
CreatePaymentCheck_PendingOnly(p) ==
  /\ UNCHANGED <<verifyLog, body, removed>>
  /\ req[p].op = "createPayment" /\ req[p].pc = "findFirst"
  /\ UNCHANGED <<orders, history, payments>>
  /\ IF \E x \in PaymentsOf(req[p].id) : payments[x].status = "PENDING"
     THEN Finish(p, "createPayment", "ORDER_ALREADY_HAS_PAYMENT")
     ELSE IF AmountMismatch(req[p].amount, orders[req[p].id].total)
     THEN Finish(p, "createPayment", "AMOUNT_MISMATCH")
     ELSE req' = [req EXCEPT ![p].pc = "insert"]

\* create() letting an order whose payments were all rejected pay again.
CreatePaymentCheck_RejectedRetry(p) ==
  /\ UNCHANGED <<verifyLog, body, removed>>
  /\ req[p].op = "createPayment" /\ req[p].pc = "findFirst"
  /\ UNCHANGED <<orders, history, payments>>
  /\ IF \E x \in PaymentsOf(req[p].id) : payments[x].status # "REJECTED"
     THEN Finish(p, "createPayment", "ORDER_ALREADY_HAS_PAYMENT")
     ELSE IF AmountMismatch(req[p].amount, orders[req[p].id].total)
     THEN Finish(p, "createPayment", "AMOUNT_MISMATCH")
     ELSE req' = [req EXCEPT ![p].pc = "insert"]

\* create(): prisma.payment.findFirst({ where: { orderId } }) and the
\* amount check against the order read before.
CreatePaymentCheck(p) ==
  /\ UNCHANGED <<verifyLog, body, removed>>
  /\ req[p].op = "createPayment" /\ req[p].pc = "findFirst"
  /\ UNCHANGED <<orders, history, payments>>
  /\ IF PaymentsOf(req[p].id) # {}
     THEN Finish(p, "createPayment", "ORDER_ALREADY_HAS_PAYMENT")
     ELSE IF AmountMismatch(req[p].amount, orders[req[p].id].total)
     THEN Finish(p, "createPayment", "AMOUNT_MISMATCH")
     ELSE /\ req' = [req EXCEPT ![p].pc = "insert"]

\* What generatePaymentId() may return: an id no row has yet (the least one
\* stands for all of them) or, by collision, the id of an existing row.
GeneratedPaymentIds ==
  {x \in PaymentIds : payments[x].exists
                       \/ \A y \in PaymentIds : ~payments[y].exists => ~LessId(y, x)}

\* create(): prisma.payment.create with the id generatePaymentId() returned.
CreatePaymentInsert(p, newId) ==
  /\ UNCHANGED <<verifyLog, body, removed>>
  /\ req[p].op = "createPayment" /\ req[p].pc = "insert"
  /\ newId \in GeneratedPaymentIds
  /\ UNCHANGED <<orders, history>>
  /\ IF payments[newId].exists
     THEN \* primary-key violation
          /\ Finish(p, "createPayment", "INTERNAL_ERROR")
          /\ UNCHANGED payments
     ELSE /\ payments' = [payments EXCEPT ![newId] =
                [exists |-> TRUE, orderId |-> req[p].id,
                 status |-> "PENDING", amount |-> req[p].amount,
                 voucher |-> FALSE, rejectedReason |-> "null"]]
          /\ Finish(p, "createPayment", "CREATED")

\* ---------------------------------------------------- payment.verify
\* verify() without the PENDING guard.
VerifyStart_NoGuard(p, id, status, rejected_reason) ==
  /\ UNCHANGED <<verifyLog, body, removed>>
  /\ IsIdle(p)
  /\ UNCHANGED <<orders, history, payments>>
  /\ IF status \notin {"VERIFIED", "REJECTED"}
     THEN Finish(p, "verify", "BAD_REQUEST")
     ELSE IF ~HasPayment(id)
     THEN Finish(p, "verify", "NOT_FOUND")
     ELSE /\ status = "VERIFIED" => HistoryRoom(payments[id].orderId)
          /\ req' = [req EXCEPT ![p] =
                [Idle EXCEPT !.op = "verify", !.pc = "txn", !.id = id,
                             !.arg = status, !.reason = rejected_reason,
                             !.orderId = payments[id].orderId]]

\* verify(): check of the requested status, prisma.payment.findUnique and
\* the PENDING guard on the row just read.
VerifyStart(p, id, status, rejected_reason) ==
  /\ UNCHANGED <<verifyLog, body, removed>>
  /\ IsIdle(p)
  /\ UNCHANGED <<orders, history, payments>>
  /\ IF status \notin {"VERIFIED", "REJECTED"}
     THEN Finish(p, "verify", "BAD_REQUEST")
     ELSE IF ~HasPayment(id)
     THEN Finish(p, "verify", "NOT_FOUND")
     ELSE IF payments[id].status # "PENDING"
     THEN Finish(p, "verify", "PAYMENT_ALREADY_PROCESSED")
     ELSE /\ status = "VERIFIED" => HistoryRoom(payments[id].orderId)
          /\ req' = [req EXCEPT ![p] =
                [Idle EXCEPT !.op = "verify", !.pc = "txn", !.id = id,
                             !.arg = status, !.reason = rejected_reason,
                             !.orderId = payments[id].orderId]]

\* verify() whose transaction also moves the order to PREPARING.
VerifyTxn_Advances(p) ==
  /\ req[p].op = "verify" /\ req[p].pc = "txn"
  /\ payments' = [payments EXCEPT ![req[p].id] =
        [@ EXCEPT !.status = req[p].arg,
                  !.rejectedReason =
                     IF req[p].arg = "REJECTED" /\ req[p].reason # Undefined
                     THEN req[p].reason ELSE "null"]]
  /\ orders' = [orders EXCEPT ![req[p].orderId] =
        [@ EXCEPT !.paymentStatus = req[p].arg,
                  !.status = IF req[p].arg = "VERIFIED" THEN "PREPARING" ELSE @]]
  /\ history' = IF req[p].arg = "VERIFIED"
                THEN [history EXCEPT ![req[p].orderId] =
                        Append(@, [status |-> "PREPARING",
                                   notes |-> NoteVerified])]
                ELSE history
  /\ verifyLog' = [verifyLog EXCEPT ![req[p].id] = Append(@, req[p].arg)]
  /\ UNCHANGED <<body, removed>>
  /\ Finish(p, "verify", "OK")

\* verify() whose transaction cancels the order of a rejected payment.
VerifyTxn_RejectCancels(p) ==
  /\ req[p].op = "verify" /\ req[p].pc = "txn"
  /\ payments' = [payments EXCEPT ![req[p].id] =
        [@ EXCEPT !.status = req[p].arg,
                  !.rejectedReason =
                     IF req[p].arg = "REJECTED" /\ req[p].reason # Undefined
                     THEN req[p].reason ELSE "null"]]
  /\ orders' = [orders EXCEPT ![req[p].orderId] =
        [@ EXCEPT !.paymentStatus = req[p].arg,
                  !.status = IF req[p].arg = "REJECTED" THEN "CANCELLED" ELSE @]]
  /\ history' = [history EXCEPT ![req[p].orderId] =
                   Append(@, IF req[p].arg = "VERIFIED"
                             THEN [status |-> "AWAITING_PAYMENT",
                                   notes |-> NoteVerified]
                             ELSE [status |-> "CANCELLED",
                                   notes |-> NoteCancelled])]
  /\ verifyLog' = [verifyLog EXCEPT ![req[p].id] = Append(@, req[p].arg)]
  /\ UNCHANGED <<body, removed>>
  /\ Finish(p, "verify", "OK")

\* verify(): the transaction. It updates the payment, the order's
\* paymentStatus and, for VERIFIED, appends a history row.
VerifyTxn(p) ==
  /\ req[p].op = "verify" /\ req[p].pc = "txn"
  /\ payments' = [payments EXCEPT ![req[p].id] =
        [@ EXCEPT !.status = req[p].arg,
                  !.rejectedReason =
                     IF req[p].arg = "REJECTED" /\ req[p].reason # Undefined
                     THEN req[p].reason ELSE "null"]]
  /\ orders' = [orders EXCEPT ![req[p].orderId].paymentStatus = req[p].arg]
  /\ history' = IF req[p].arg = "VERIFIED"
                THEN [history EXCEPT ![req[p].orderId] =
                        Append(@, [status |-> "AWAITING_PAYMENT",
                                   notes |-> NoteVerified])]
                ELSE history
  /\ verifyLog' = [verifyLog EXCEPT ![req[p].id] = Append(@, req[p].arg)]
  /\ UNCHANGED <<body, removed>>
  /\ Finish(p, "verify", "OK")

\* ------------------------------------------------- payment.uploadVoucher
\* uploadVoucher(): file check, prisma.payment.findUnique and permission
\* check (the order's owner or an ADMIN).
UploadVoucherStart(p, id, user, hasFile) ==
  /\ UNCHANGED <<verifyLog, body, removed>>
  /\ IsIdle(p)
  /\ UNCHANGED <<orders, history, payments>>
  /\ IF ~hasFile
     THEN Finish(p, "uploadVoucher", "BAD_REQUEST")
     ELSE IF ~HasPayment(id)
     THEN Finish(p, "uploadVoucher", "NOT_FOUND")
     ELSE IF /\ ~(user \in DOMAIN Role /\ Role[user] = "ADMIN")
             /\ user # orders[payments[id].orderId].userId
     THEN Finish(p, "uploadVoucher", "FORBIDDEN")
     ELSE /\ req' = [req EXCEPT ![p] =
                [Idle EXCEPT !.op = "uploadVoucher", !.pc = "update",
                             !.id = id]]

\* uploadVoucher(): prisma.payment.update of the voucher columns.
UploadVoucherUpdate(p) ==
  /\ UNCHANGED <<verifyLog, body, removed>>
  /\ req[p].op = "uploadVoucher" /\ req[p].pc = "update"
  /\ payments' = [payments EXCEPT ![req[p].id].voucher = TRUE]
  /\ UNCHANGED <<orders, history>>
  /\ Finish(p, "uploadVoucher", "OK")

\* ------------------------------------------------- PATCH /:id/verify
\* What a call of requireRole may be given: a role name or an array of them.
RoleName(s) == [kind |-> "string", text |-> s, elems |-> <<>>]
RoleArray(a) == [kind |-> "array", text |-> "", elems |-> a]

\* authenticateUser(): no bearer token, no user.
authenticateUser(user) ==
  IF user \notin DOMAIN Role THEN "TOKEN_REQUIRED" ELSE "next"

\* requireRole(...allowedRoles): the rest parameter collects the arguments
\* into an array, and includes() finds the user's role in it only if one
\* argument is that very string; an argument that is an array equals no
\* string.
requireRole(allowedRoles, user) ==
  IF user \notin DOMAIN Role THEN "TOKEN_REQUIRED"
  ELSE IF \E i \in 1..Len(allowedRoles) :
            allowedRoles[i].kind = "string" /\ allowedRoles[i].text = Role[user]
  THEN "next"
  ELSE "INSUFFICIENT_PERMISSIONS"

\* The arguments of requireRole on the verify route: requireRole(['ADMIN']).
VerifyRouteRoles == <<RoleArray(<<"ADMIN">>)>>

\* router.patch('/:id/verify', authenticateUser, requireRole(['ADMIN']),
\* verify): the middlewares answer 401 or 403, or hand over to verify().
VerifyRoute(p, user, id, status, rejected_reason) ==
  /\ IsIdle(p)
  /\ IF authenticateUser(user) # "next"
     THEN /\ UNCHANGED <<orders, history, payments, verifyLog, body, removed>>
          /\ Finish(p, "verify", authenticateUser(user))
     ELSE IF requireRole(VerifyRouteRoles, user) # "next"
     THEN /\ UNCHANGED <<orders, history, payments, verifyLog, body, removed>>
          /\ Finish(p, "verify", requireRole(VerifyRouteRoles, user))
     ELSE VerifyStart(p, id, status, rejected_reason)

\* ------------------------------------------------ payment.confirmPayment
\* confirmPayment() without the guard on the order's status.
ConfirmStart_NoOrderGuard(p, id, confirmation_notes) ==
  /\ UNCHANGED <<verifyLog, body, removed>>
  /\ IsIdle(p)
  /\ UNCHANGED <<orders, history, payments>>
  /\ IF ~HasPayment(id)
     THEN Finish(p, "confirm", "NOT_FOUND")
     ELSE IF payments[id].status # "VERIFIED"
     THEN Finish(p, "confirm", "PAYMENT_NOT_VERIFIED")
     ELSE /\ HistoryRoom(payments[id].orderId)
          /\ req' = [req EXCEPT ![p] =
                [Idle EXCEPT !.op = "confirm", !.pc = "txn", !.id = id,
                             !.reason = confirmation_notes,
                             !.orderId = payments[id].orderId]]

\* confirmPayment() refusing only REJECTED payments.
ConfirmStart_RejectedOnly(p, id, confirmation_notes) ==
  /\ UNCHANGED <<verifyLog, body, removed>>
  /\ IsIdle(p)
  /\ UNCHANGED <<orders, history, payments>>
  /\ IF ~HasPayment(id)
     THEN Finish(p, "confirm", "NOT_FOUND")
     ELSE IF payments[id].status = "REJECTED"
     THEN Finish(p, "confirm", "PAYMENT_NOT_VERIFIED")
     ELSE IF orders[payments[id].orderId].status # "AWAITING_PAYMENT"
     THEN Finish(p, "confirm", "INVALID_ORDER_STATUS")
     ELSE /\ HistoryRoom(payments[id].orderId)
          /\ req' = [req EXCEPT ![p] =
                [Idle EXCEPT !.op = "confirm", !.pc = "txn", !.id = id,
                             !.reason = confirmation_notes,
                             !.orderId = payments[id].orderId]]

\* confirmPayment() accepting an order that is already in PREPARING.
ConfirmStart_PreparingAgain(p, id, confirmation_notes) ==
  /\ UNCHANGED <<verifyLog, body, removed>>
  /\ IsIdle(p)
  /\ UNCHANGED <<orders, history, payments>>
  /\ IF ~HasPayment(id)
     THEN Finish(p, "confirm", "NOT_FOUND")
     ELSE IF payments[id].status # "VERIFIED"
     THEN Finish(p, "confirm", "PAYMENT_NOT_VERIFIED")
     ELSE IF orders[payments[id].orderId].status
               \notin {"AWAITING_PAYMENT", "PREPARING"}
     THEN Finish(p, "confirm", "INVALID_ORDER_STATUS")
     ELSE /\ HistoryRoom(payments[id].orderId)
          /\ req' = [req EXCEPT ![p] =
                [Idle EXCEPT !.op = "confirm", !.pc = "txn", !.id = id,
                             !.reason = confirmation_notes,
                             !.orderId = payments[id].orderId]]

\* confirmPayment(): prisma.payment.findUnique with its order and the two
\* guards on what was read.
ConfirmStart(p, id, confirmation_notes) ==
  /\ UNCHANGED <<verifyLog, body, removed>>
  /\ IsIdle(p)
  /\ UNCHANGED <<orders, history, payments>>
  /\ IF ~HasPayment(id)
     THEN Finish(p, "confirm", "NOT_FOUND")
     ELSE IF payments[id].status # "VERIFIED"
     THEN Finish(p, "confirm", "PAYMENT_NOT_VERIFIED")
     ELSE IF orders[payments[id].orderId].status # "AWAITING_PAYMENT"
     THEN Finish(p, "confirm", "INVALID_ORDER_STATUS")
     ELSE /\ HistoryRoom(payments[id].orderId)
          /\ req' = [req EXCEPT ![p] =
                [Idle EXCEPT !.op = "confirm", !.pc = "txn", !.id = id,
                             !.reason = confirmation_notes,
                             !.orderId = payments[id].orderId]]

\* confirmPayment() that turns the order's latest history row into the
\* PREPARING row instead of inserting one.
ConfirmTxn_RewritesLast(p) ==
  /\ UNCHANGED <<verifyLog, body, removed>>
  /\ req[p].op = "confirm" /\ req[p].pc = "txn"
  /\ orders' = [orders EXCEPT ![req[p].orderId].status = "PREPARING"]
  /\ history' = [history EXCEPT ![req[p].orderId] =
                   [@ EXCEPT ![Len(@)] =
                      [status |-> "PREPARING",
                       notes |-> IF Falsy(req[p].reason)
                                 THEN NoteConfirmed
                                 ELSE req[p].reason]]]
  /\ UNCHANGED payments
  /\ Finish(p, "confirm", "OK")

\* confirmPayment(): the transaction sets the order to PREPARING and
\* appends a history row.
ConfirmTxn(p) ==
  /\ UNCHANGED <<verifyLog, body, removed>>
  /\ req[p].op = "confirm" /\ req[p].pc = "txn"
  /\ orders' = [orders EXCEPT ![req[p].orderId].status = "PREPARING"]
  /\ history' = [history EXCEPT ![req[p].orderId] =
                   Append(@, [status |-> "PREPARING",
                              notes |-> IF Falsy(req[p].reason)
                                        THEN NoteConfirmed
                                        ELSE req[p].reason])]
  /\ UNCHANGED payments
  /\ Finish(p, "confirm", "OK")

\* --------------------------------------------------- order.updateStatus
\* updateStatus() that refuses to change a DELIVERED or CANCELLED order.
UpdateStatusStart_TerminalGuard(p, id, status, notes) ==
  /\ UNCHANGED <<verifyLog, body, removed>>
  /\ IsIdle(p)
  /\ UNCHANGED <<orders, history, payments>>
  /\ IF status \notin OrderStatus
     THEN Finish(p, "setStatus", "BAD_REQUEST")
     ELSE IF ~HasOrder(id)
     THEN Finish(p, "setStatus", "NOT_FOUND")
     ELSE IF orders[id].status \in {"DELIVERED", "CANCELLED"}
     THEN Finish(p, "setStatus", "INVALID_ORDER_STATUS")
     ELSE /\ HistoryRoom(id)
          /\ req' = [req EXCEPT ![p] =
                [Idle EXCEPT !.op = "setStatus", !.pc = "txn", !.id = id,
                             !.arg = status, !.reason = notes,
                             !.orderId = id]]

\* updateStatus(): check of the requested status and prisma.order.findUnique.
UpdateStatusStart(p, id, status, notes) ==
  /\ UNCHANGED <<verifyLog, body, removed>>
  /\ IsIdle(p)
  /\ UNCHANGED <<orders, history, payments>>
  /\ IF status \notin OrderStatus
     THEN Finish(p, "setStatus", "BAD_REQUEST")
     ELSE IF ~HasOrder(id)
     THEN Finish(p, "setStatus", "NOT_FOUND")
     ELSE /\ HistoryRoom(id)
          /\ req' = [req EXCEPT ![p] =
                [Idle EXCEPT !.op = "setStatus", !.pc = "txn", !.id = id,
                             !.arg = status, !.reason = notes,
                             !.orderId = id]]

\* updateStatus() that writes no history row when the requested status is
\* the one the order already has.
UpdateStatusTxn_SkipSame(p) ==
  /\ UNCHANGED <<verifyLog, body, removed>>
  /\ req[p].op = "setStatus" /\ req[p].pc = "txn"
  /\ orders' = [orders EXCEPT ![req[p].id].status = req[p].arg]
  /\ history' = IF orders[req[p].id].status = req[p].arg THEN history
                ELSE [history EXCEPT ![req[p].id] =
                        Append(@, [status |-> req[p].arg,
                                   notes |-> IF req[p].reason = Undefined
                                             THEN "null" ELSE req[p].reason])]
  /\ UNCHANGED payments
  /\ Finish(p, "setStatus", "OK")

\* updateStatus(): the transaction sets the status and appends a history row.
UpdateStatusTxn(p) ==
  /\ UNCHANGED <<verifyLog, body, removed>>
  /\ req[p].op = "setStatus" /\ req[p].pc = "txn"
  /\ orders' = [orders EXCEPT ![req[p].id].status = req[p].arg]
  /\ history' = [history EXCEPT ![req[p].id] =
                   Append(@, [status |-> req[p].arg,
                              notes |-> IF req[p].reason = Undefined
                                        THEN "null" ELSE req[p].reason])]
  /\ UNCHANGED payments
  /\ Finish(p, "setStatus", "OK")

\* --------------------------------------------------------- order.cancel
\* cancel() without the guard on DELIVERED orders.
CancelStart_NoDeliveredGuard(p, id, user, reason) ==
  /\ UNCHANGED <<verifyLog, body, removed>>
  /\ IsIdle(p)
  /\ UNCHANGED <<orders, history, payments>>
  /\ IF ~HasOrder(id)
     THEN Finish(p, "cancel", "NOT_FOUND")
     ELSE IF /\ ~(user \in DOMAIN Role /\ Role[user] = "ADMIN")
             /\ user # orders[id].userId
     THEN Finish(p, "cancel", "FORBIDDEN")
     ELSE IF orders[id].status = "CANCELLED"
     THEN Finish(p, "cancel", "ORDER_ALREADY_CANCELLED")
     ELSE /\ HistoryRoom(id)
          /\ req' = [req EXCEPT ![p] =
                [Idle EXCEPT !.op = "cancel", !.pc = "txn", !.id = id,
                             !.reason = reason, !.orderId = id]]

\* cancel(): prisma.order.findUnique, permission check and the two guards
\* on the status read.
CancelStart(p, id, user, reason) ==
  /\ UNCHANGED <<verifyLog, body, removed>>
  /\ IsIdle(p)
  /\ UNCHANGED <<orders, history, payments>>
  /\ IF ~HasOrder(id)
     THEN Finish(p, "cancel", "NOT_FOUND")
     ELSE IF /\ ~(user \in DOMAIN Role /\ Role[user] = "ADMIN")
             /\ user # orders[id].userId
     THEN Finish(p, "cancel", "FORBIDDEN")
     ELSE IF orders[id].status = "CANCELLED"
     THEN Finish(p, "cancel", "ORDER_ALREADY_CANCELLED")
     ELSE IF orders[id].status = "DELIVERED"
     THEN Finish(p, "cancel", "ORDER_ALREADY_DELIVERED")
     ELSE /\ HistoryRoom(id)
          /\ req' = [req EXCEPT ![p] =
                [Idle EXCEPT !.op = "cancel", !.pc = "txn", !.id = id,
                             !.reason = reason, !.orderId = id]]

\* cancel() writing without a transaction: the status update is kept when
\* the insert of the history row fails.
CancelTxn_StatusOnly(p) ==
  /\ UNCHANGED <<verifyLog, body, removed>>
  /\ req[p].op = "cancel" /\ req[p].pc = "txn"
  /\ orders' = [orders EXCEPT ![req[p].id].status = "CANCELLED"]
  /\ UNCHANGED <<history, payments>>
  /\ Finish(p, "cancel", "INTERNAL_ERROR")

\* cancel(): the transaction sets CANCELLED and appends a history row.
CancelTxn(p) ==
  /\ UNCHANGED <<verifyLog, body, removed>>
  /\ req[p].op = "cancel" /\ req[p].pc = "txn"
  /\ orders' = [orders EXCEPT ![req[p].id].status = "CANCELLED"]
  /\ history' = [history EXCEPT ![req[p].id] =
                   Append(@, [status |-> "CANCELLED",
                              notes |-> IF Falsy(req[p].reason)
                                        THEN NoteCancelled
                                        ELSE req[p].reason])]
  /\ UNCHANGED payments
  /\ Finish(p, "cancel", "OK")

\* ------------------------------------------------------- product.remove
\* remove() of the product controller: prisma.product.findUnique.
RemoveProductStart(p, id) ==
  /\ UNCHANGED <<verifyLog, body, removed>>
  /\ IsIdle(p)
  /\ UNCHANGED <<orders, history, payments>>
  /\ IF id \notin ProductIds \ removed
     THEN Finish(p, "removeProduct", "NOT_FOUND")
     ELSE req' = [req EXCEPT ![p] =
             [Idle EXCEPT !.op = "removeProduct", !.pc = "deleteMany",
                          !.id = id]]

\* remove(): prisma.orderItem.deleteMany({ where: { productId } }) deletes
\* the rows of every order that reference the product.
RemoveProductItems(p) ==
  /\ UNCHANGED <<verifyLog, body, removed>>
  /\ req[p].op = "removeProduct" /\ req[p].pc = "deleteMany"
  /\ orders' = [o \in OrderIds |->
        [orders[o] EXCEPT !.items =
           SelectSeq(@, LAMBDA row : row.productId # req[p].id)]]
  /\ UNCHANGED <<history, payments>>
  /\ req' = [req EXCEPT ![p].pc = "delete"]

\* remove(): prisma.product.delete; no order item references the row now.
RemoveProductDelete(p) ==
  /\ UNCHANGED <<verifyLog, body>>
  /\ req[p].op = "removeProduct" /\ req[p].pc = "delete"
  /\ removed' = removed \cup {req[p].id}
  /\ UNCHANGED <<orders, history, payments>>
  /\ Finish(p, "removeProduct", "OK")

\* ------------------------------------------------------------------ inputs
\* Requests are drawn from small sets of argument tuples.
ItemsA == <<Item("p1", "none", 2000), Item("p2", "none", 1000)>>

\* Item lists that create() refuses, one for each reason.
BadItemLists ==
  { <<>>,
    <<Item("p1", "none", 0)>>,
    <<Item("p2", "none", 1000), Item("p404", "none", 1000)>>,
    <<Item("p3", "none", 1000)>>,
    <<Item("p2", "bag", 1000)>> }

\* The notes sent with setStatus(s): the text another handler writes with
\* that status where there is one, none otherwise.
NotesFor(s) ==
  CASE s = "AWAITING_PAYMENT" -> NoteVerified
    [] s = "PREPARING" -> NoteConfirmed
    [] s = "CANCELLED" -> NoteCancelled
    [] OTHER -> Undefined

\* Well-formed requests that name existing or generated ids: what the
\* concurrent specification interleaves.
LeanInputs ==
  [createOrder |-> {<<{}, "YAPE", ItemsA>>},
   createPayment |-> {<<o, "YAPE", 0>> : o \in OrderIds},
   verify |-> {<<x, "VERIFIED", Undefined>> : x \in PaymentIds}
              \cup {<<x, "REJECTED", "text">> : x \in PaymentIds},
   uploadVoucher |-> {<<x, "alice", TRUE>> : x \in PaymentIds},
   confirm |-> {<<x, Undefined>> : x \in PaymentIds},
   setStatus |-> {<<o, s, NotesFor(s)>> : o \in OrderIds,
                    s \in {"AWAITING_PAYMENT", "DELIVERED"}},
   cancel |-> {<<o, "alice", Undefined>> : o \in OrderIds}]

\* The same and, for every handler, one request for each way of being
\* refused before it reads or writes anything, and the optional texts.
RichInputs ==
  [createOrder |->
     LeanInputs.createOrder
     \cup {<<{f}, "YAPE", ItemsA>> : f \in RequiredFields}
     \cup {<<{}, "BITCOIN", ItemsA>>}
     \cup {<<{}, "YAPE", l>> : l \in BadItemLists},
   createPayment |->
     {<<o, "YAPE", a>> : o \in OrderIds, a \in {0, 1030}}
     \cup {<<"ORD-404", "YAPE", 0>>, <<"none", "YAPE", 0>>}
     \cup {<<o, m, 0>> : o \in OrderIds, m \in {"BITCOIN", "none"}},
   verify |->
     {<<x, "VERIFIED", Undefined>> : x \in PaymentRefs}
     \cup {<<x, "REJECTED", r>> : x \in PaymentIds, r \in OptText}
     \cup {<<x, "PENDING", Undefined>> : x \in PaymentIds},
   uploadVoucher |->
     {<<x, u, TRUE>> : x \in PaymentIds, u \in Requesters}
     \cup {<<"PAY-404", "admin", TRUE>>}
     \cup {<<x, "admin", FALSE>> : x \in PaymentIds},
   confirm |-> {<<x, Undefined>> : x \in PaymentRefs},
   setStatus |->
     {<<o, s, NotesFor(s)>> : o \in OrderIds, s \in OrderStatus}
     \cup {<<o, "LOST", Undefined>> : o \in OrderIds}
     \cup {<<"ORD-404", "PREPARING", Undefined>>},
   cancel |->
     {<<o, u, Undefined>> : o \in OrderIds, u \in Requesters}
     \cup {<<o, "admin", r>> : o \in OrderIds, r \in {"", "text"}}
     \cup {<<"ORD-404", "admin", Undefined>>}]

\* ---------------------------------------------------------- specification
\* A request slot takes one step of the handler it runs; In gives the
\* requests that may arrive.
Step(p, In) ==
  \/ \E i \in In.createOrder, u \in Buyers, newId \in OrderIds :
       CreateOrder(p, u, i[1], i[2], i[3], newId)
  \/ \E i \in In.createPayment : CreatePaymentStart(p, i[1], i[2], i[3])
  \/ CreatePaymentCheck(p)
  \/ \E newId \in PaymentIds : CreatePaymentInsert(p, newId)
  \/ \E i \in In.verify : VerifyStart(p, i[1], i[2], i[3])
  \/ VerifyTxn(p)
  \/ \E i \in In.uploadVoucher : UploadVoucherStart(p, i[1], i[2], i[3])
  \/ UploadVoucherUpdate(p)
  \/ \E i \in In.confirm : ConfirmStart(p, i[1], i[2])
  \/ ConfirmTxn(p)
  \/ \E i \in In.setStatus : UpdateStatusStart(p, i[1], i[2], i[3])
  \/ UpdateStatusTxn(p)
  \/ \E i \in In.cancel : CancelStart(p, i[1], i[2], i[3])
  \/ CancelTxn(p)

\* Concurrent requests: any slot may step at any time.
Next == \E p \in Procs : Step(p, LeanInputs)

Spec == Init /\ [][Next]_vars

\* Requests served one after another, through one slot.
Solo == "r1"

NextSeq == Step(Solo, RichInputs)

SpecSeq == Init /\ [][NextSeq]_vars

\* The order's own life, served one after another: it is created, may get
\* a payment, and setStatus and cancel are called on it with every argument.
NextOrder ==
  \/ \E i \in LeanInputs.createOrder, u \in Buyers, newId \in OrderIds :
       CreateOrder(Solo, u, i[1], i[2], i[3], newId)
  \/ \E i \in LeanInputs.createPayment :
       CreatePaymentStart(Solo, i[1], i[2], i[3])
  \/ CreatePaymentCheck(Solo)
  \/ \E newId \in PaymentIds : CreatePaymentInsert(Solo, newId)
  \/ \E i \in RichInputs.setStatus :
       UpdateStatusStart(Solo, i[1], i[2], i[3])
  \/ UpdateStatusTxn(Solo)
  \/ \E i \in RichInputs.cancel : CancelStart(Solo, i[1], i[2], i[3])
  \/ CancelTxn(Solo)

SpecOrder == Init /\ [][NextOrder]_vars

\* Payments with every supplied amount, served one after another: the order
\* is created, its payment is created with or without an amount, the voucher
\* uploaded, the payment verified or rejected.
NextPay ==
  \/ \E i \in LeanInputs.createOrder, u \in Buyers, newId \in OrderIds :
       CreateOrder(Solo, u, i[1], i[2], i[3], newId)
  \/ \E o \in OrderIds, a \in AmountInputs :
       CreatePaymentStart(Solo, o, "YAPE", a)
  \/ CreatePaymentCheck(Solo)
  \/ \E newId \in PaymentIds : CreatePaymentInsert(Solo, newId)
  \/ \E i \in LeanInputs.uploadVoucher :
       UploadVoucherStart(Solo, i[1], i[2], i[3])
  \/ UploadVoucherUpdate(Solo)
  \/ \E i \in LeanInputs.verify : VerifyStart(Solo, i[1], i[2], i[3])
  \/ VerifyTxn(Solo)

SpecPay == Init /\ [][NextPay]_vars

\* Orders and the catalog, served one after another: orders of one or two
\* items are created and cancelled, products are deleted.
NextCatalog ==
  \/ \E l \in {ItemsA, <<Item("p2", "none", 1500)>>,
               <<Item("p1", "bag", 1000), Item("p1", "none", 333)>>},
        u \in Buyers, newId \in OrderIds :
       CreateOrder(Solo, u, {}, "YAPE", l, newId)
  \/ \E id \in ProductIds \cup {"p404"} : RemoveProductStart(Solo, id)
  \/ RemoveProductItems(Solo)
  \/ RemoveProductDelete(Solo)
  \/ \E i \in LeanInputs.cancel : CancelStart(Solo, i[1], i[2], i[3])
  \/ CancelTxn(Solo)

SpecCatalog == Init /\ [][NextCatalog]_vars

\* The payment flow without any reset of the order's status, served one
\* after another: the order and its payment are created, the voucher
\* uploaded, the payment verified or rejected and confirmed, with or without
\* notes, any number of times.
NextConfirm ==
  \/ \E i \in LeanInputs.createOrder, u \in Buyers, newId \in OrderIds :
       CreateOrder(Solo, u, i[1], i[2], i[3], newId)
  \/ \E i \in RichInputs.createPayment :
       CreatePaymentStart(Solo, i[1], i[2], i[3])
  \/ CreatePaymentCheck(Solo)
  \/ \E newId \in PaymentIds : CreatePaymentInsert(Solo, newId)
  \/ \E i \in LeanInputs.uploadVoucher :
       UploadVoucherStart(Solo, i[1], i[2], i[3])
  \/ UploadVoucherUpdate(Solo)
  \/ \E i \in LeanInputs.verify : VerifyStart(Solo, i[1], i[2], i[3])
  \/ VerifyTxn(Solo)
  \/ \E x \in PaymentRefs, n \in OptText : ConfirmStart(Solo, x, n)
  \/ ConfirmTxn(Solo)

SpecConfirm == Init /\ [][NextConfirm]_vars

\* The argument of requireRole on the order status route: requireRole('ADMIN').
StatusRouteRoles == <<RoleName("ADMIN")>>

\* router.patch('/:id/status', authenticateUser, requireRole('ADMIN'),
\* updateStatus).
UpdateStatusRoute(p, user, id, status, notes) ==
  /\ IsIdle(p)
  /\ IF authenticateUser(user) # "next"
     THEN /\ UNCHANGED <<orders, history, payments, verifyLog, body, removed>>
          /\ Finish(p, "setStatus", authenticateUser(user))
     ELSE IF requireRole(StatusRouteRoles, user) # "next"
     THEN /\ UNCHANGED <<orders, history, payments, verifyLog, body, removed>>
          /\ Finish(p, "setStatus", requireRole(StatusRouteRoles, user))
     ELSE UpdateStatusStart(p, id, status, notes)

\* The payment routes as mounted, served one after another: orders and
\* payments are created and vouchers uploaded without a role guard, and
\* verify and setStatus are asked for through their routes by every kind
\* of requester.
NextRoute ==
  \/ \E i \in LeanInputs.createOrder, u \in Buyers, newId \in OrderIds :
       CreateOrder(Solo, u, i[1], i[2], i[3], newId)
  \/ \E i \in RichInputs.createPayment :
       CreatePaymentStart(Solo, i[1], i[2], i[3])
  \/ CreatePaymentCheck(Solo)
  \/ \E newId \in PaymentIds : CreatePaymentInsert(Solo, newId)
  \/ \E i \in RichInputs.uploadVoucher :
       UploadVoucherStart(Solo, i[1], i[2], i[3])
  \/ UploadVoucherUpdate(Solo)
  \/ \E u \in Requesters, i \in RichInputs.verify :
       VerifyRoute(Solo, u, i[1], i[2], i[3])
  \/ \E u \in Requesters, i \in RichInputs.setStatus :
       UpdateStatusRoute(Solo, u, i[1], i[2], i[3])
  \/ UpdateStatusTxn(Solo)

SpecRoute == Init /\ [][NextRoute]_vars

\* A statement inside a $transaction callback throws (the row is gone, the
\* connection drops): the transaction rolls back and the catch block
\* answers 500.
TxnAbort(p) ==
  /\ UNCHANGED <<verifyLog, body, removed>>
  /\ req[p].pc = "txn"
  /\ UNCHANGED <<orders, history, payments>>
  /\ Finish(p, req[p].op, "INTERNAL_ERROR")

\* One step of a handler that writes inside a transaction, of createPayment
\* (which supplies the payments they work on), or a failing transaction.
StepTxn(p, In) ==
  \/ \E i \in In.createOrder, u \in Buyers, newId \in OrderIds :
       CreateOrder(p, u, i[1], i[2], i[3], newId)
  \/ \E i \in In.createPayment : CreatePaymentStart(p, i[1], i[2], i[3])
  \/ CreatePaymentCheck(p)
  \/ \E newId \in PaymentIds : CreatePaymentInsert(p, newId)
  \/ \E i \in In.verify : VerifyStart(p, i[1], i[2], i[3])
  \/ VerifyTxn(p)
  \/ \E i \in In.confirm : ConfirmStart(p, i[1], i[2])
  \/ ConfirmTxn(p)
  \/ \E i \in In.setStatus : UpdateStatusStart(p, i[1], i[2], i[3])
  \/ UpdateStatusTxn(p)
  \/ \E i \in In.cancel : CancelStart(p, i[1], i[2], i[3])
  \/ CancelTxn(p)
  \/ TxnAbort(p)

\* Concurrent requests whose transactions may fail.
NextAtomic == \E p \in Procs : StepTxn(p, LeanInputs)

SpecAtomic == Init /\ [][NextAtomic]_vars

\* Items a createOrder request may carry: valid ones (whole and fractional
\* quantities, with and without presentation) and one for each item error.
ItemChoices ==
  { Item("p1", "none", 2000), Item("p2", "none", 1000),
    Item("p1", "none", 333), Item("p2", "none", 1500),
    Item("p1", "none", 2300),
    Item("p1", "bag", 1000),
    Item("p1", "none", 0), Item("p404", "none", 1000),
    Item("p3", "none", 1000), Item("p2", "bag", 1000) }

ItemLists == UNION {[1..n -> ItemChoices] : n \in 0..MaxItems}

\* createOrder requests of the pricing specification.
CreateInputs ==
  {<<{}, "YAPE", l>> : l \in ItemLists}
  \cup {<<{f}, "YAPE", ItemsA>> : f \in RequiredFields}
  \cup {<<{}, "BITCOIN", ItemsA>>}

\* createOrder requests alone, served one after another, over every item
\* list up to MaxItems.
NextCreate ==
  \E i \in CreateInputs, u \in Buyers, newId \in OrderIds :
     CreateOrder(Solo, u, i[1], i[2], i[3], newId)

SpecCreate == Init /\ [][NextCreate]_vars

\* Items of the pricing specification: the same and items with two defects
\* or an absent product_id or an unknown presentation.
PriceChoices ==
  ItemChoices
  \cup { Item("p404", "none", 0), Item("p3", "bag", 1000),
         Item("p1", "x404", 1000), Item("none", "none", 1000),
         Item("p404", "bag", 1000), Item("p1", "none", -1000) }

PriceLists == UNION {[1..n -> PriceChoices] : n \in 1..MaxItems}

\* The state before a createOrder request whose items array is any of
\* PriceLists.
InitPrice ==
  /\ orders = [o \in OrderIds |-> NoOrder]
  /\ history = [o \in OrderIds |-> <<>>]
  /\ payments = [x \in PaymentIds |-> NoPayment]
  /\ req = [p \in Procs |-> Idle]
  /\ verifyLog = [x \in PaymentIds |-> <<>>]
  /\ body \in PriceLists
  /\ removed = {}

\* The request is served (and served again when the client repeats it).
NextPrice ==
  \E u \in Buyers, newId \in OrderIds :
     CreateOrder(Solo, u, {}, "YAPE", body, newId)

SpecPrice == InitPrice /\ [][NextPrice]_vars

TypeOK ==
  /\ \A o \in OrderIds : orders[o].exists =>
        orders[o].status \in OrderStatus /\ orders[o].paymentStatus \in PaymentStatus
  /\ \A x \in PaymentIds : payments[x].exists =>
        payments[x].status \in PaymentStatus /\ payments[x].orderId \in OrderIds

\* ------------------------------------------------------------------ claims
\* C1: served one after another, the first verify of a PENDING payment is
\* accepted and answers OK, every later verify of that payment answers
\* PAYMENT_ALREADY_PROCESSED and writes nothing, and the payment's status and
\* the order's payment_status are the first call's decision from then on.
C1_VerifyTwice ==
  /\ [](\A x \in PaymentIds :
          /\ Len(verifyLog[x]) <= 1
          /\ Len(verifyLog[x]) = 1 =>
               /\ payments[x].status = verifyLog[x][1]
               /\ orders[payments[x].orderId].paymentStatus = verifyLog[x][1])
  /\ [][\A x \in PaymentIds, d \in {"VERIFIED", "REJECTED"}, r \in OptText :
          (VerifyStart(Solo, x, d, r) /\ payments[x].exists) =>
             IF verifyLog[x] = <<>>
             THEN req'[Solo].pc = "txn"
             ELSE /\ req'[Solo].code = "PAYMENT_ALREADY_PROCESSED"
                  /\ req'[Solo].pc = "idle"
                  /\ UNCHANGED <<db, verifyLog>>]_vars
  /\ [][VerifyTxn(Solo) =>
          /\ req'[Solo].code = "OK"
          /\ verifyLog[req[Solo].id] = <<>>
          /\ payments'[req[Solo].id].status = req[Solo].arg]_vars

\* A second verify has been refused after a first one was applied.
C1_Witness ==
  /\ req[Solo].code = "PAYMENT_ALREADY_PROCESSED"
  /\ \E x \in PaymentIds : Len(verifyLog[x]) = 1

\* C2: with concurrent verify calls, a payment is never processed twice:
\* the application log reports at most one applied decision per payment.
C2_ProcessedOnce == \A x \in PaymentIds : Len(verifyLog[x]) <= 1

\* C3: once a payment is VERIFIED or REJECTED no step changes its status.
C3_TerminalNoRevert ==
  [][\A x \in PaymentIds :
       (payments[x].exists /\ payments[x].status \in {"VERIFIED", "REJECTED"})
          => payments'[x].status = payments[x].status]_vars

\* C4: every order has at most one row in the payments table.
C4_OnePaymentPerOrder == \A o \in OrderIds : Cardinality(PaymentsOf(o)) <= 1

\* C5: served one after another, a well-formed createPayment for an order
\* that already has a payment row, whatever its status, answers
\* ORDER_ALREADY_HAS_PAYMENT, one for an unknown order answers NOT_FOUND, and
\* neither writes anything; a row is only inserted for an order without one.
C5_CreatePaymentRefused ==
  /\ [][\A o \in OrderRefs, a \in AmountInputs :
          CreatePaymentStart(Solo, o, "YAPE", a) =>
             IF HasOrder(o)
             THEN req'[Solo].pc = "findFirst"
             ELSE /\ req'[Solo].code = "NOT_FOUND" /\ req'[Solo].pc = "idle"
                  /\ UNCHANGED db]_vars
  /\ [][(CreatePaymentCheck(Solo) /\ PaymentsOf(req[Solo].id) # {}) =>
          /\ req'[Solo].code = "ORDER_ALREADY_HAS_PAYMENT"
          /\ req'[Solo].pc = "idle"
          /\ UNCHANGED db]_vars
  /\ [][\A x \in PaymentIds : (payments'[x].exists /\ ~payments[x].exists) =>
          PaymentsOf(payments'[x].orderId) = {}]_vars

\* A createPayment has been refused for an order whose payment was already
\* processed.
C5_Witness ==
  /\ req[Solo].code = "ORDER_ALREADY_HAS_PAYMENT"
  /\ \E x \in PaymentIds : payments[x].exists /\ payments[x].status = "REJECTED"

\* C6: only a confirm transaction takes an order from AWAITING_PAYMENT to
\* PREPARING, and it does so for an order that has a VERIFIED payment.
C6_OnlyConfirmPrepares ==
  [][\A o \in OrderIds :
       (orders[o].status = "AWAITING_PAYMENT" /\ orders'[o].status = "PREPARING")
          => /\ \E p \in Procs : ConfirmTxn(p)
             /\ \E x \in PaymentsOf(o) : payments[x].status = "VERIFIED"]_vars

\* C7: served one after another, confirm answers NOT_FOUND for an unknown
\* payment, PAYMENT_NOT_VERIFIED for a PENDING or REJECTED one and
\* INVALID_ORDER_STATUS for a VERIFIED one whose order is not
\* AWAITING_PAYMENT, each time writing nothing; otherwise its transaction
\* sets the order to PREPARING, appends one PREPARING history row and leaves
\* the payment and the order's payment_status as they were.
C7_ConfirmCases ==
  /\ [][\A x \in PaymentRefs :
          ConfirmStart(Solo, x, Undefined) =>
             IF ~HasPayment(x)
             THEN /\ req'[Solo].code = "NOT_FOUND" /\ req'[Solo].pc = "idle"
                  /\ UNCHANGED db
             ELSE IF payments[x].status \in {"PENDING", "REJECTED"}
             THEN /\ req'[Solo].code = "PAYMENT_NOT_VERIFIED"
                  /\ req'[Solo].pc = "idle"
                  /\ UNCHANGED db
             ELSE IF orders[payments[x].orderId].status # "AWAITING_PAYMENT"
             THEN /\ req'[Solo].code = "INVALID_ORDER_STATUS"
                  /\ req'[Solo].pc = "idle"
                  /\ UNCHANGED db
             ELSE req'[Solo].pc = "txn" /\ UNCHANGED db]_vars
  /\ [][ConfirmTxn(Solo) =>
          LET o == req[Solo].orderId IN
          /\ payments[req[Solo].id].status = "VERIFIED"
          /\ orders[o].status = "AWAITING_PAYMENT"
          /\ orders'[o].status = "PREPARING"
          /\ Len(history'[o]) = Len(history[o]) + 1
          /\ SubSeq(history'[o], 1, Len(history[o])) = history[o]
          /\ history'[o][Len(history'[o])].status = "PREPARING"
          /\ orders'[o].paymentStatus = orders[o].paymentStatus
          /\ payments' = payments
          /\ req'[Solo].code = "OK"]_vars
  /\ [][\A o \in OrderIds :
          (orders[o].status # "PREPARING" /\ orders'[o].status = "PREPARING"
           /\ req[Solo].op = "confirm")
             => \E x \in PaymentsOf(o) :
                  payments[x].status = "VERIFIED"
                  /\ orders[o].status = "AWAITING_PAYMENT"]_vars

\* A confirm has been refused because the order of its VERIFIED payment had
\* left AWAITING_PAYMENT.
C7_Witness ==
  /\ req[Solo].code = "INVALID_ORDER_STATUS"
  /\ \E x \in PaymentIds : payments[x].exists /\ payments[x].status = "VERIFIED"

\* C8 as stated: confirm on a PENDING payment whose order is AWAITING_PAYMENT
\* answers INVALID_ORDER_STATUS.
C8_ConfirmBeforeVerify_Stated ==
  [][\A x \in PaymentIds :
       (/\ ConfirmStart(Solo, x, Undefined)
        /\ payments[x].exists /\ payments[x].status = "PENDING"
        /\ orders[payments[x].orderId].status = "AWAITING_PAYMENT")
          => req'[Solo].code = "INVALID_ORDER_STATUS"]_vars

\* C8 amended: confirm on a PENDING payment whose order is AWAITING_PAYMENT
\* answers PAYMENT_NOT_VERIFIED and writes nothing.
C8_ConfirmBeforeVerify ==
  [][\A x \in PaymentIds :
       (/\ ConfirmStart(Solo, x, Undefined)
        /\ payments[x].exists /\ payments[x].status = "PENDING"
        /\ orders[payments[x].orderId].status = "AWAITING_PAYMENT")
          => /\ req'[Solo].code = "PAYMENT_NOT_VERIFIED"
             /\ req'[Solo].pc = "idle"
             /\ UNCHANGED <<db, verifyLog>>]_vars

\* A confirm has been refused while the payment was PENDING and the order
\* AWAITING_PAYMENT.
C8_Witness ==
  /\ req[Solo].code = "PAYMENT_NOT_VERIFIED"
  /\ \E x \in PaymentIds :
       /\ payments[x].exists /\ payments[x].status = "PENDING"
       /\ orders[payments[x].orderId].status = "AWAITING_PAYMENT"

\* C9: verify with decision REJECTED and a missing or empty rejection reason
\* on a PENDING payment answers BAD_REQUEST and writes nothing, so a payment
\* is never REJECTED without a reason.
C9_RejectNeedsReason ==
  /\ [][\A x \in PaymentIds, r \in {Undefined, ""} :
          (/\ VerifyStart(Solo, x, "REJECTED", r)
           /\ payments[x].exists /\ payments[x].status = "PENDING")
             => /\ req'[Solo].code = "BAD_REQUEST"
                /\ req'[Solo].pc = "idle"
                /\ UNCHANGED db]_vars
  /\ [](\A x \in PaymentIds :
          (payments[x].exists /\ payments[x].status = "REJECTED")
             => ~Falsy(payments[x].rejectedReason)
                /\ payments[x].rejectedReason # "null")

\* C10: the transaction of verify with decision VERIFIED sets the payment's
\* status and the order's payment_status to VERIFIED, leaves the order's
\* status as it is, whatever it is, and appends exactly one history row.
C10_VerifiedFrame ==
  [][\A p \in Procs :
       (VerifyTxn(p) /\ req[p].arg = "VERIFIED") =>
          LET o == req[p].orderId IN
          /\ payments'[req[p].id].status = "VERIFIED"
          /\ orders'[o].paymentStatus = "VERIFIED"
          /\ orders'[o].status = orders[o].status
          /\ orders'[o].status = "AWAITING_PAYMENT" =>
                orders[o].status = "AWAITING_PAYMENT"
          /\ Len(history'[o]) = Len(history[o]) + 1
          /\ SubSeq(history'[o], 1, Len(history[o])) = history[o]
          /\ req'[p].code = "OK"]_vars

\* A payment was verified after its order had already left
\* AWAITING_PAYMENT, and the order kept that status.
C10_Witness ==
  \E o \in OrderIds :
    /\ Len(history[o]) >= 3
    /\ history[o][Len(history[o])] =
         [status |-> "AWAITING_PAYMENT", notes |-> NoteVerified]
    /\ orders[o].status \in {"SHIPPED", "DELIVERED", "CANCELLED"}
    /\ orders[o].paymentStatus = "VERIFIED"
    /\ req[Solo].code = "OK"

\* C11: the transaction of verify with decision REJECTED sets the payment's
\* status and the order's payment_status to REJECTED and leaves the order's
\* status and every history row as they were: no history row is appended.
C11_RejectedFrame ==
  [][\A p \in Procs :
       (VerifyTxn(p) /\ req[p].arg = "REJECTED") =>
          LET o == req[p].orderId IN
          /\ payments'[req[p].id].status = "REJECTED"
          /\ orders'[o].paymentStatus = "REJECTED"
          /\ orders'[o].status = orders[o].status
          /\ history' = history
          /\ \A q \in OrderIds \ {o} : orders'[q] = orders[q]
          /\ req'[p].code = "OK"]_vars

\* A payment has been rejected and its order, created and then shipped,
\* has these two history rows and no other.
C11_Witness ==
  \E x \in PaymentIds :
    /\ payments[x].exists /\ payments[x].status = "REJECTED"
    /\ orders[payments[x].orderId].paymentStatus = "REJECTED"
    /\ orders[payments[x].orderId].status = "SHIPPED"
    /\ verifyLog[x] = <<"REJECTED">>
    /\ req[Solo].code = "OK"
    /\ Len(history[payments[x].orderId]) = 2
    /\ history[payments[x].orderId][2].status = "SHIPPED"

\* C12: a createOrder that fails changes no table.  It fails when a required
\* field is missing, the item list is empty, a quantity is not positive, a
\* product is unknown or inactive or a presentation is not the product's,
\* also when the bad item comes after items that were priced.
C12_AllOrNothing ==
  [][/\ req'[Solo].code # "CREATED" => UNCHANGED <<db, verifyLog>>
     /\ req'[Solo].code = "CREATED" =>
          \A i \in CreateInputs, u \in Buyers, newId \in OrderIds :
             CreateOrder(Solo, u, i[1], i[2], i[3], newId) =>
                /\ i[1] = {} /\ Len(i[3]) > 0
                /\ \A k \in 1..Len(i[3]) : ItemError(i[3][k]) = "ok"]_vars

\* A createOrder was refused for a product and no order row, item or
\* history row exists; one of the refused lists has a valid first item.
C12_Witness ==
  /\ req[Solo].code = "INVALID_PRODUCT"
  /\ \A o \in OrderIds : ~orders[o].exists /\ history[o] = <<>>
  /\ \E l \in ItemLists :
       /\ Len(l) = 2 /\ ItemError(l[1]) = "ok"
       /\ PriceItems(l, 1, 0, <<>>).err = "INVALID_PRODUCT"

\* C13: the writes of one call of createOrder, verify, confirm, setStatus or
\* cancel reach the tables in one step, all together: a changed order status
\* comes with its history row, a changed payment status with the order's
\* payment_status (and the history row of a verification), a new order with
\* its items and first history row; a call that answers an error, a failed
\* transaction included, leaves the tables as they were.
C13_Atomic ==
  /\ [][\A o \in OrderIds :
          /\ (orders[o].exists /\ orders'[o].status # orders[o].status) =>
                /\ Len(history'[o]) = Len(history[o]) + 1
                /\ SubSeq(history'[o], 1, Len(history[o])) = history[o]
                /\ history'[o][Len(history'[o])].status = orders'[o].status
          /\ (~orders[o].exists /\ orders'[o].exists) =>
                /\ Len(orders'[o].items) > 0
                /\ history'[o] = <<[status |-> "AWAITING_PAYMENT",
                                    notes |-> NoteCreated]>>
          /\ (orders[o].exists
              /\ orders'[o].paymentStatus # orders[o].paymentStatus) =>
                \E x \in PaymentsOf(o) :
                   /\ payments'[x].status = orders'[o].paymentStatus
                   /\ verifyLog'[x] = Append(verifyLog[x],
                                             orders'[o].paymentStatus)]_vars
  /\ [][\A x \in PaymentIds :
          (payments[x].exists /\ payments'[x].status # payments[x].status) =>
             LET o == payments[x].orderId IN
             /\ orders'[o].paymentStatus = payments'[x].status
             /\ payments'[x].status = "VERIFIED" =>
                   history'[o] = Append(history[o],
                                        [status |-> "AWAITING_PAYMENT",
                                         notes |-> NoteVerified])]_vars
  /\ [][\A p \in Procs :
          (req'[p] # req[p] /\ req'[p].pc = "idle"
           /\ req'[p].code \notin {"OK", "CREATED"}) =>
             UNCHANGED <<db, verifyLog>>]_vars

\* A transaction has failed and answered 500 while another request was
\* between its read and its transaction, and the order has its creation
\* row only.
C13_Witness ==
  \E p, q \in Procs :
    /\ p # q
    /\ req[p].code = "INTERNAL_ERROR" /\ req[p].pc = "idle"
    /\ req[q].pc = "txn"
    /\ \E o \in OrderIds :
         /\ orders[o].exists /\ Len(history[o]) = 1
         /\ PaymentsOf(o) = {}

\* C14: a createOrder that succeeds inserts one order, AWAITING_PAYMENT with
\* payment_status PENDING, one item row for each requested item in the
\* order of the request, and one history row (AWAITING_PAYMENT, 'Order
\* created'); it leaves every other order and the payments table alone.
C14_CreateOrderPersists ==
  [][req'[Solo].code = "CREATED" =>
     \A i \in CreateInputs, u \in Buyers, newId \in OrderIds :
       CreateOrder(Solo, u, i[1], i[2], i[3], newId) =>
          /\ ~orders[newId].exists /\ orders'[newId].exists
          /\ \A o \in OrderIds \ {newId} :
                orders'[o] = orders[o] /\ history'[o] = history[o]
          /\ orders'[newId].status = "AWAITING_PAYMENT"
          /\ orders'[newId].paymentStatus = "PENDING"
          /\ Len(orders'[newId].items) = Len(i[3])
          /\ \A k \in 1..Len(i[3]) :
                /\ orders'[newId].items[k].productId = i[3][k].product_id
                /\ orders'[newId].items[k].presentationId
                     = i[3][k].presentation_id
                /\ orders'[newId].items[k].quantity = i[3][k].quantity
          /\ history'[newId] = <<[status |-> "AWAITING_PAYMENT",
                                  notes |-> "Order created"]>>
          /\ payments' = payments
          /\ PaymentsOf(newId)' = {}]_vars

\* An order of two different items has been created: it has its two item
\* rows, one history row and no payment.
C14_Witness ==
  \E o \in OrderIds :
    /\ req[Solo].code = "CREATED"
    /\ orders[o].exists /\ orders[o].status = "AWAITING_PAYMENT"
    /\ Len(orders[o].items) = 2
    /\ orders[o].items[1].productId = "p2"
    /\ orders[o].items[2].presentationId = "bag"
    /\ Len(history[o]) = 1
    /\ PaymentsOf(o) = {}

\* C15: a step appends to an order's history exactly when it is the
\* transaction of a successful setStatus, cancel, confirm or verify(VERIFIED)
\* on that order, and then it appends exactly one row; the row of setStatus,
\* cancel and confirm carries the status the same step gives the order.
\* Every other step, a refused or failed call included, leaves the history
\* as it is, and creation writes the first row.  So an order has one row
\* more than the successful calls of these four kinds made on it.
C15_OneRowPerTransition ==
  [][\A o \in OrderIds :
       IF ~orders[o].exists
       THEN Len(history[o]) = 0 /\ Len(history'[o]) = IF orders'[o].exists THEN 1 ELSE 0
       ELSE IF \E p \in Procs :
                 /\ req[p].orderId = o
                 /\ UpdateStatusTxn(p) \/ CancelTxn(p) \/ ConfirmTxn(p)
            THEN /\ Len(history'[o]) = Len(history[o]) + 1
                 /\ SubSeq(history'[o], 1, Len(history[o])) = history[o]
                 /\ history'[o][Len(history'[o])].status = orders'[o].status
                 /\ \E p \in Procs : req'[p] # req[p] /\ req'[p].code = "OK"
       ELSE IF \E p \in Procs :
                 req[p].orderId = o /\ req[p].arg = "VERIFIED" /\ VerifyTxn(p)
            THEN /\ Len(history'[o]) = Len(history[o]) + 1
                 /\ SubSeq(history'[o], 1, Len(history[o])) = history[o]
                 /\ orders'[o].status = orders[o].status
       ELSE history'[o] = history[o]]_vars

\* An order without payment was set to the status it already had and then
\* to DELIVERED: its history has the creation row and one row for each call.
C15_Witness ==
  \E o \in OrderIds :
    /\ orders[o].exists /\ orders[o].status = "DELIVERED"
    /\ PaymentsOf(o) = {}
    /\ Len(history[o]) = 3
    /\ history[o][2].status = "AWAITING_PAYMENT"
    /\ history[o][3].status = "DELIVERED"
    /\ \E p \in Procs : req[p].code = "OK" /\ req[p].pc = "idle"

\* C16: the history of every order is append-only: each step leaves the rows
\* an order has in place and unchanged, so the history of any state is a
\* prefix of the history of every later state.
C16_AppendOnly ==
  [][\A o \in OrderIds :
       /\ Len(history'[o]) >= Len(history[o])
       /\ \A k \in 1..Len(history[o]) : history'[o][k] = history[o][k]]_vars

\* An order was created, its payment verified and then confirmed: the
\* three rows are there in that order.
C16_Witness ==
  \E o \in OrderIds :
    /\ Len(history[o]) >= 3
    /\ history[o][1] = [status |-> "AWAITING_PAYMENT", notes |-> NoteCreated]
    /\ history[o][2] = [status |-> "AWAITING_PAYMENT", notes |-> NoteVerified]
    /\ history[o][3] = [status |-> "PREPARING", notes |-> NoteConfirmed]
    /\ \E x \in PaymentsOf(o) : payments[x].status = "VERIFIED"

\* C17: DELIVERED and CANCELLED are terminal: no step changes the status of
\* an order that is DELIVERED or CANCELLED.
C17_TerminalOrderStates ==
  [][\A o \in OrderIds :
       (orders[o].exists /\ orders[o].status \in {"DELIVERED", "CANCELLED"})
          => orders'[o].status = orders[o].status]_vars

\* C18: setStatus enforces no sequence.  For an existing order and each of
\* the six statuses the call is accepted whatever the current status, the
\* current one and the terminal ones included, and its transaction sets the
\* requested status and answers OK; an unrecognised status answers
\* BAD_REQUEST and an unknown order NOT_FOUND, both writing nothing.
C18_SetStatusAnyToAny ==
  /\ [][\A o \in OrderRefs, s \in OrderStatus \cup {"LOST"} :
          UpdateStatusStart(Solo, o, s, NotesFor(s)) =>
             IF s \notin OrderStatus
             THEN /\ req'[Solo].code = "BAD_REQUEST" /\ req'[Solo].pc = "idle"
                  /\ UNCHANGED <<db, verifyLog>>
             ELSE IF ~HasOrder(o)
             THEN /\ req'[Solo].code = "NOT_FOUND" /\ req'[Solo].pc = "idle"
                  /\ UNCHANGED <<db, verifyLog>>
             ELSE /\ req'[Solo].pc = "txn" /\ req'[Solo].arg = s
                  /\ UNCHANGED <<db, verifyLog>>]_vars
  /\ [][UpdateStatusTxn(Solo) =>
          /\ orders'[req[Solo].id].status = req[Solo].arg
          /\ req'[Solo].code = "OK"]_vars
  /\ [](\A o \in OrderIds :
          (IsIdle(Solo) /\ orders[o].exists /\ HistoryRoom(o)) =>
             \A s \in OrderStatus :
                ENABLED (UpdateStatusStart(Solo, o, s, NotesFor(s))
                         /\ req'[Solo].pc = "txn"))

\* A DELIVERED order was set back to SHIPPED.
C18_Witness ==
  \E o \in OrderIds :
    /\ orders[o].status = "SHIPPED"
    /\ Len(history[o]) >= 3
    /\ history[o][Len(history[o]) - 1].status = "DELIVERED"
    /\ history[o][Len(history[o])] = [status |-> "SHIPPED", notes |-> "null"]
    /\ req[Solo].code = "OK"

\* C19: cancel, asked by the order's owner or an administrator, answers
\* NOT_FOUND for an unknown order, ORDER_ALREADY_DELIVERED for a DELIVERED
\* one and ORDER_ALREADY_CANCELLED for a CANCELLED one, writing nothing; for
\* an order in any of the four other statuses its transaction sets
\* CANCELLED and appends one row (CANCELLED, the reason given or 'Order
\* cancelled'), leaving payment_status and the payments as they were.
C19_CancelCases ==
  /\ [][\A o \in OrderRefs, u \in {"admin", "alice"}, r \in OptText :
          CancelStart(Solo, o, u, r) =>
             IF ~HasOrder(o)
             THEN /\ req'[Solo].code = "NOT_FOUND" /\ req'[Solo].pc = "idle"
                  /\ UNCHANGED <<db, verifyLog>>
             ELSE IF orders[o].status = "DELIVERED"
             THEN /\ req'[Solo].code = "ORDER_ALREADY_DELIVERED"
                  /\ req'[Solo].pc = "idle"
                  /\ UNCHANGED <<db, verifyLog>>
             ELSE IF orders[o].status = "CANCELLED"
             THEN /\ req'[Solo].code = "ORDER_ALREADY_CANCELLED"
                  /\ req'[Solo].pc = "idle"
                  /\ UNCHANGED <<db, verifyLog>>
             ELSE /\ req'[Solo].pc = "txn" /\ req'[Solo].reason = r
                  /\ UNCHANGED <<db, verifyLog>>]_vars
  /\ [][CancelTxn(Solo) =>
          LET o == req[Solo].id IN
          /\ orders[o].status \in {"AWAITING_PAYMENT", "PREPARING",
                                    "READY_FOR_SHIPPING", "SHIPPED"}
          /\ orders'[o].status = "CANCELLED"
          /\ history'[o] =
                Append(history[o],
                       [status |-> "CANCELLED",
                        notes |-> IF req[Solo].reason \in {Undefined, ""}
                                  THEN "Order cancelled"
                                  ELSE req[Solo].reason])
          /\ orders'[o].paymentStatus = orders[o].paymentStatus
          /\ payments' = payments
          /\ req'[Solo].code = "OK"]_vars
  /\ [](\A o \in OrderIds :
          (/\ IsIdle(Solo) /\ orders[o].exists /\ HistoryRoom(o)
           /\ orders[o].status \notin {"DELIVERED", "CANCELLED"}) =>
             ENABLED (CancelStart(Solo, o, "alice", Undefined)
                      /\ req'[Solo].pc = "txn"))

\* A SHIPPED order with a PENDING payment was cancelled with a reason: the
\* row carries it and the payment is still PENDING.
C19_Witness ==
  \E o \in OrderIds :
    /\ orders[o].status = "CANCELLED" /\ orders[o].paymentStatus = "PENDING"
    /\ Len(history[o]) = 3
    /\ history[o][2].status = "SHIPPED"
    /\ history[o][3] = [status |-> "CANCELLED", notes |-> "text"]
    /\ \E x \in PaymentsOf(o) : payments[x].status = "PENDING"
    /\ req[Solo].code = "OK"

\* C20: createPayment accepts a supplied amount exactly when it differs from
\* the order's total by one cent or less: then it goes on to insert a PENDING
\* payment with that amount; otherwise it answers AMOUNT_MISMATCH and writes
\* nothing.  Every stored payment is within one cent of its order's total.
C20_AmountTolerance ==
  /\ [][(CreatePaymentCheck(Solo) /\ PaymentsOf(req[Solo].id) = {}) =>
          IF Abs(req[Solo].amount - orders[req[Solo].id].total) <= 1
          THEN req'[Solo].pc = "insert" /\ UNCHANGED <<db, verifyLog>>
          ELSE /\ req'[Solo].code = "AMOUNT_MISMATCH"
               /\ req'[Solo].pc = "idle"
               /\ UNCHANGED <<db, verifyLog>>]_vars
  /\ [][\A x \in PaymentIds :
          (CreatePaymentInsert(Solo, x) /\ ~payments[x].exists) =>
             /\ payments'[x].status = "PENDING"
             /\ payments'[x].amount = req[Solo].amount
             /\ req'[Solo].code = "CREATED"]_vars
  /\ [](\A x \in PaymentIds : payments[x].exists =>
          Abs(payments[x].amount - orders[payments[x].orderId].total) <= 1)

\* subtotal += itemTotal over the lines from the i-th on.
RECURSIVE SumTotals(_, _)
SumTotals(lines, i) ==
  IF i > Len(lines) THEN 0 ELSE lines[i].total + SumTotals(lines, i + 1)

\* C21: the order a createOrder inserts has, for each line, total =
\* round(unit price x quantity, 2), subtotal = the sum of the line totals,
\* tax = round(subtotal x 0.18, 2) and total = subtotal + tax.
C21_Totals ==
  \A o \in OrderIds : orders[o].exists =>
    /\ \A k \in 1..Len(orders[o].items) :
         orders[o].items[k].total =
           RoundDiv(orders[o].items[k].price * orders[o].items[k].quantity,
                    1000)
    /\ orders[o].subtotal = SumTotals(orders[o].items, 1)
    /\ orders[o].tax = RoundDiv(orders[o].subtotal * 18, 100)
    /\ orders[o].total = orders[o].subtotal + orders[o].tax

\* C22: an item with a presentation reference is priced only when the
\* presentation is one of its product's, at the presentation's price and with
\* the presentation's name and unit in the row; an item without one is
\* priced at the product's price.  When the first offending item of a request
\* is one whose presentation is another product's or unknown, the request
\* is refused with the message 'Presentation ... not found for product ...'
\* and nothing is written.
C22_Presentation ==
  [][\A u \in Buyers, newId \in OrderIds :
       CreateOrder(Solo, u, {}, "YAPE", body, newId) =>
          /\ req'[Solo].code = "CREATED" =>
                \A k \in 1..Len(body) :
                   LET row == orders'[newId].items[k] IN
                   IF body[k].presentation_id # "none"
                   THEN /\ body[k].presentation_id
                             \in Product[body[k].product_id].presentations
                        /\ row.presentationId = body[k].presentation_id
                        /\ row.price = Presentation[body[k].presentation_id].price
                        /\ row.presentationInfo =
                             [name |-> Presentation[body[k].presentation_id].name,
                              unit |-> Presentation[body[k].presentation_id].unit]
                   ELSE /\ row.price = Product[body[k].product_id].price
                        /\ row.presentationInfo =
                             [name |-> "null", unit |-> "null"]
          /\ (\E k \in 1..Len(body) :
                /\ \A j \in 1..(k - 1) : ItemError(body[j]) = "ok"
                /\ body[k].quantity > 0
                /\ body[k].product_id \in ProductIds
                /\ Product[body[k].product_id].active
                /\ body[k].presentation_id # "none"
                /\ body[k].presentation_id
                     \notin Product[body[k].product_id].presentations) =>
                /\ req'[Solo].code = "INVALID_PRODUCT"
                /\ req'[Solo].msg = "Presentation not found for product"
                /\ UNCHANGED db]_vars

\* An order whose second item names the product's presentation has been
\* created: the first line has the product's price, the second the
\* presentation's.
C22_Witness ==
  \E o \in OrderIds :
    /\ req[Solo].code = "CREATED" /\ orders[o].exists
    /\ body = <<Item("p1", "none", 2000), Item("p1", "bag", 1000)>>
    /\ orders[o].items[1].price = 250
    /\ orders[o].items[2].price = 1100
    /\ orders[o].items[2].presentationInfo.unit = "BAG"

C24_ItemsImmutable ==
  [][\A o \in OrderIds :
       orders[o].exists => orders'[o].items = orders[o].items]_vars

\* C25: an order's payment status is the status of its payment, and PENDING
\* while it has no payment, in every reachable state.
C25_PaymentStatusMirror ==
  \A o \in OrderIds :
    orders[o].exists =>
      /\ \A x \in PaymentsOf(o) : payments[x].status = orders[o].paymentStatus
      /\ PaymentsOf(o) = {} => orders[o].paymentStatus = "PENDING"

\* C26: the last history row of an order carries the order's current
\* status, in every reachable state.
C26_LastRowIsStatus ==
  \A o \in OrderIds :
    (orders[o].exists /\ Len(history[o]) > 0) =>
      history[o][Len(history[o])].status = orders[o].status

\* C27: the guards of confirm and cancel hold when they write: the write of
\* confirm finds the order in AWAITING_PAYMENT, and the write of cancel
\* never finds it DELIVERED.
C27_GuardsHoldAtWrite ==
  [][\A p \in Procs :
       /\ (req[p].op = "confirm" /\ req[p].pc = "txn" /\ req'[p].code = "OK"
             /\ orders'[req[p].orderId].status = "PREPARING") =>
              orders[req[p].orderId].status = "AWAITING_PAYMENT"
       /\ (req[p].op = "cancel" /\ req[p].pc = "txn" /\ req'[p].code = "OK"
             /\ orders'[req[p].orderId].status = "CANCELLED") =>
              orders[req[p].orderId].status # "DELIVERED"]_vars

\* A verify(REJECTED) has succeeded on a payment of order o.
WasRejected(o) ==
  \E x \in PaymentsOf(o) :
    \E i \in 1..Len(verifyLog[x]) : verifyLog[x][i] = "REJECTED"

\* C28: served one after another, once a verify(REJECTED) has succeeded the
\* order's payment status stays REJECTED, no payment row is inserted for
\* the order any more, and no confirm passes its guards or writes.
C28_RejectionFinal ==
  /\ [](\A o \in OrderIds :
          WasRejected(o) => orders[o].paymentStatus = "REJECTED")
  /\ [][\A x \in PaymentIds :
          (payments'[x].exists /\ ~payments[x].exists) =>
             ~WasRejected(payments'[x].orderId)]_vars
  /\ [][/\ req'[Solo].op = "confirm" => ~WasRejected(req'[Solo].orderId)
        /\ (req[Solo].op = "confirm" /\ req'[Solo].code = "OK") =>
              ~WasRejected(req[Solo].orderId)]_vars

\* After a rejection a confirm has been refused and the order still shows
\* REJECTED.
C28_Witness ==
  /\ req[Solo].code = "PAYMENT_NOT_VERIFIED"
  /\ \E o \in OrderIds : WasRejected(o) /\ orders[o].paymentStatus = "REJECTED"

\* The history rows of order o that carry status s.
RowsWith(o, s) == {i \in 1..Len(history[o]) : history[o][i].status = s}

\* C29: while the status is not reset, a confirm on a payment whose order a
\* confirm has already taken to PREPARING answers INVALID_ORDER_STATUS and
\* writes nothing, so the order stays in PREPARING with one PREPARING row.
C29_ConfirmOnce ==
  /\ [][\A x \in PaymentIds, n \in OptText :
          (/\ ConfirmStart(Solo, x, n)
           /\ payments[x].exists
           /\ orders[payments[x].orderId].status = "PREPARING") =>
             /\ req'[Solo].code = "INVALID_ORDER_STATUS"
             /\ req'[Solo].pc = "idle"
             /\ UNCHANGED db
             /\ orders'[payments[x].orderId].status = "PREPARING"]_vars
  /\ [](\A o \in OrderIds : Cardinality(RowsWith(o, "PREPARING")) <= 1)

\* A second confirm has been refused: the order is in PREPARING and its
\* history ends with the one row the first confirm appended.
C29_Witness ==
  /\ req[Solo].code = "INVALID_ORDER_STATUS"
  /\ \E o \in OrderIds :
       /\ orders[o].status = "PREPARING"
       /\ Len(history[o]) = 3
       /\ history[o][3].status = "PREPARING"
       /\ RowsWith(o, "PREPARING") = {3}

\* C30: on the verify route a request of an authenticated user reaches the
\* controller if and only if the user's role is ADMIN: an ADMIN is not
\* answered 403, and every other role is, with nothing written.
C30_VerifyAdminOnly ==
  [][\A u \in DOMAIN Role, i \in RichInputs.verify :
       VerifyRoute(Solo, u, i[1], i[2], i[3]) =>
          IF Role[u] = "ADMIN"
          THEN req'[Solo].code # "INSUFFICIENT_PERMISSIONS"
          ELSE /\ req'[Solo].code = "INSUFFICIENT_PERMISSIONS"
               /\ req'[Solo].pc = "idle"
               /\ UNCHANGED db]_vars

====
